---- MODULE Spec2Model ----
(***************************************************************************)
(* State-machine model of zombie.py: the Zombie disease (an SIR            *)
(* extension), DeathZombies, KillZombies, zombie_vaccine and               *)
(* ZombieConnector, driven by the simulation loop that calls them once per *)
(* timestep (demographics, step_state, connectors, interventions,          *)
(* transmission, step_die, finish_step).                                   *)
(*                                                                         *)
(* Per-agent arrays are functions over Agents; only the active UIDs        *)
(* (auids) are visible to array expressions, as in the population arrays.  *)
(* Probabilities are percentages; a Bernoulli draw with p = 0 or p = 100   *)
(* has one outcome, any other p leaves the outcome open.  Relative         *)
(* susceptibilities are exact fractions <<num, den>> in lowest terms.      *)
(***************************************************************************)
EXTENDS Integers, FiniteSets, Sequences, TLC

VARIABLES
    ti,             \* sim.ti / self.ti: index of the current timestep
    pc,             \* position in the simulation's plan of calls
    cfg,            \* constructor arguments of the modules of this simulation
    auids,          \* people.auids: active (not yet removed) agents
    alive,          \* people.alive
    ti_dead,        \* people.ti_dead (NaN until death is requested)
    susceptible,    \* disease.susceptible, per disease
    infected,       \* disease.infected, per disease
    recovered,      \* disease.recovered, per disease
    dis_ti_dead,    \* disease.ti_dead, per disease
    ti_recovered,   \* disease.ti_recovered, per disease
    fast,           \* Zombie.fast, per disease
    symptomatic,    \* Zombie.symptomatic, per disease
    ti_slow,        \* Zombie.ti_slow, per disease
    rel_sus,        \* disease.rel_sus, per disease
    cum_congenital, \* Zombie.cum_congenital, per disease
    cum_deaths,     \* Zombie.cum_deaths, per disease
    n_administered, \* number of zombie_vaccine.administer calls that included the agent
    last            \* the handler that ran last, with its arguments, draws and result

vars == <<ti, pc, cfg, auids, alive, ti_dead, susceptible, infected, recovered,
          dis_ti_dead, ti_recovered, fast, symptomatic, ti_slow, rel_sus,
          cum_congenital, cum_deaths, n_administered, last>>

-----------------------------------------------------------------------------
(* Bounds of the model *)

\* population size and number of timesteps of the simulations checked
NAgents == 2
MaxTi == 2
\* the same for the simulation that shows two infections in one timestep
CrossAgents == 3
CrossSteps == 1
\* a duration, in timesteps, short enough to end within the horizon; given
\* as dur_inf and dur_fast in the pars of a Zombie in place of the defaults
ShortDur == 1

-----------------------------------------------------------------------------
(* Program constants *)

\* ss.FloatArr default: not-a-number; every comparison with it is false
NaN == -1
\* the value of a bare `return`
None == -1

P_fast == 10
P_symptomatic == 100
P_death_on_zombie_infection == 25
P_death == 100
P_zombie_on_natural_death == 75
\* the defaults of dur_inf and dur_fast: ss.constant(v=1000), in timesteps
DurInf == 1000
DurFast == 1000
\* calendar year of timestep 0; one timestep is one year
StartYear == 2000

\* the characters of the disease names the model knows
DiseaseNameChars ==
    [zombie |-> <<"z", "o", "m", "b", "i", "e">>,
     fast_zombie |-> <<"f", "a", "s", "t", "_", "z", "o", "m", "b", "i", "e">>,
     slow_zombie |-> <<"s", "l", "o", "w", "_", "z", "o", "m", "b", "i", "e">>,
     zombie2 |-> <<"z", "o", "m", "b", "i", "e", "2">>,
     zombie_fast |-> <<"z", "o", "m", "b", "i", "e", "_", "f", "a", "s", "t">>,
     zombi |-> <<"z", "o", "m", "b", "i">>,
     undead |-> <<"u", "n", "d", "e", "a", "d">>,
     sir |-> <<"s", "i", "r">>]

\* sub in s, on sequences of characters
IsSubstring(sub, s) ==
    \E i \in 1..(Len(s) - Len(sub) + 1) : SubSeq(s, i, i + Len(sub) - 1) = sub

\* 'zombie' in name
ContainsZombie(name) ==
    IsSubstring(<<"z", "o", "m", "b", "i", "e">>, DiseaseNameChars[name])

-----------------------------------------------------------------------------
(* Arithmetic on fractions *)

RECURSIVE GCD(_, _)
GCD(a, b) == IF b = 0 THEN a ELSE GCD(b, a % b)

Frac(n, d) == LET g == GCD(n, d) IN IF g = 0 THEN <<0, 1>> ELSE <<n \div g, d \div g>>

One == <<1, 1>>
Zero == <<0, 1>>

FMul(x, y) == Frac(x[1] * y[1], x[2] * y[2])

\* 1 - x, for 0 <= x <= 1
FCompl(x) == Frac(x[2] - x[1], x[2])

RECURSIVE FPow(_, _)
FPow(x, n) == IF n = 0 THEN One ELSE FMul(x, FPow(x, n - 1))

-----------------------------------------------------------------------------
(* Draws *)

\* the possible sets of UIDs drawn True when each is drawn with the
\* probability p, a fraction
BernoulliDraw(p, uids) ==
    IF p[1] <= 0 THEN {{}}
    ELSE IF p[1] >= p[2] THEN {uids}
    ELSE SUBSET uids

\* bernoulli(p).rvs(uids) / .filter(uids), p in percent
BernoulliFilter(p, uids) == BernoulliDraw(<<p, 100>>, uids)

\* bernoulli(p).filter(uids, both=True): the UIDs drawn True and the others
IndependentFilterBoth(p, uids) ==
    {<<s, r>> : s \in BernoulliFilter(p, uids), r \in SUBSET uids}

BernoulliFilterBoth(p, uids) ==
    {<<s, uids \ s>> : s \in BernoulliFilter(p, uids)}

\* x <= t on float arrays: false for NaN
Le(x, t) == x # NaN /\ x <= t

-----------------------------------------------------------------------------
(* The state the handlers read and write, as one record *)

World ==
    [ti |-> ti, auids |-> auids, alive |-> alive, ti_dead |-> ti_dead,
     susceptible |-> susceptible, infected |-> infected, recovered |-> recovered,
     dis_ti_dead |-> dis_ti_dead, ti_recovered |-> ti_recovered,
     fast |-> fast, symptomatic |-> symptomatic, ti_slow |-> ti_slow,
     rel_sus |-> rel_sus, cum_congenital |-> cum_congenital,
     cum_deaths |-> cum_deaths,
     dur_inf |-> cfg.dur.dur_inf, dur_fast |-> cfg.dur.dur_fast]

\* arr[uids] = value
SetAt(arr, uids, value) == [a \in DOMAIN arr |-> IF a \in uids THEN value ELSE arr[a]]

\* boolarr.uids
Uids(w, boolarr) == {a \in w.auids : boolarr[a]}

\* people.request_death(uids): the agents die at the end of this timestep
request_death(w, uids) == [w EXCEPT !.ti_dead = SetAt(@, uids, w.ti)]

-----------------------------------------------------------------------------
(* class Zombie(ss.SIR) *)

\* the draws of one set_prognoses call
PrognosisDraws(uids) ==
    [will_die : BernoulliFilter(P_death, uids),
     symptomatic : BernoulliFilter(P_symptomatic, uids),
     dead : BernoulliFilter(P_death_on_zombie_infection, uids)]

NoDraw == [will_die |-> {}, symptomatic |-> {}, dead |-> {}]

\* super().set_prognoses(uids, sources)
SIR_set_prognoses(w, d, uids, draw) ==
    [w EXCEPT
        !.susceptible[d] = SetAt(@, uids, FALSE),
        !.infected[d] = SetAt(@, uids, TRUE),
        !.dis_ti_dead[d] = SetAt(@, uids \cap draw.will_die, w.ti + w.dur_inf),
        !.ti_recovered[d] = SetAt(@, uids \ draw.will_die, w.ti + w.dur_inf)]

\* uids[self.fast[uids]]
EveryCandidateFastUids(w, d, uids) == uids

FastUids(w, d, uids) == {a \in uids : w.fast[d][a]}

\* Zombie.set_prognoses(uids)
set_prognoses(w, d, uids, draw) ==
    LET w1 == SIR_set_prognoses(w, d, uids, draw)
        w2 == [w1 EXCEPT
                 !.symptomatic[d] =
                     [a \in DOMAIN @ |-> IF a \in uids THEN a \in draw.symptomatic ELSE @[a]],
                 !.ti_slow[d] = SetAt(@, FastUids(w1, d, uids), w1.ti + w1.dur_fast),
                 !.cum_deaths[d] = @ + Cardinality(draw.dead)]
    IN  request_death(w2, draw.dead)

\* Zombie.set_congenital(target_uids)
OverwritingSetCongenital(w, d, target_uids, draw) ==
    set_prognoses([w EXCEPT !.cum_congenital[d] = Cardinality(target_uids)],
                  d, target_uids, draw)

CountingOnlySetCongenital(w, d, target_uids, draw) ==
    [w EXCEPT !.cum_congenital[d] = @ + Cardinality(target_uids)]

set_congenital(w, d, target_uids, draw) ==
    set_prognoses([w EXCEPT !.cum_congenital[d] = @ + Cardinality(target_uids)],
                  d, target_uids, draw)

\* np.count_nonzero(self.sim.people.ti_dead <= self.ti)
RawDeathCount(w) == Cardinality({a \in DOMAIN w.ti_dead : Le(w.ti_dead[a], w.ti)})

DeathCount(w) == Cardinality({a \in w.auids : Le(w.ti_dead[a], w.ti)})

\* super().step_state(): recoveries, then deaths that are due
SIR_step_state(w, d) ==
    LET rec == {a \in w.auids : w.infected[d][a] /\ Le(w.ti_recovered[d][a], w.ti)}
        w1 == [w EXCEPT !.infected[d] = SetAt(@, rec, FALSE),
                        !.recovered[d] = SetAt(@, rec, TRUE)]
        deaths == {a \in w.auids : Le(w.dis_ti_dead[d][a], w.ti)}
    IN  IF deaths # {} THEN request_death(w1, deaths) ELSE w1

\* (self.infected & self.fast & (self.ti_slow <= self.ti)).uids
StrictFastToSlowUids(w, d) ==
    {a \in w.auids : /\ w.infected[d][a] /\ w.fast[d][a]
                     /\ w.ti_slow[d][a] # NaN /\ w.ti_slow[d][a] < w.ti}

FastToSlowUids(w, d) ==
    {a \in w.auids : w.infected[d][a] /\ w.fast[d][a] /\ Le(w.ti_slow[d][a], w.ti)}

RecomputingStepState(w, d) ==
    LET w1 == [w EXCEPT !.cum_deaths[d] = @ + DeathCount(w)]
        w2 == SIR_step_state(w1, d)
        zombies == {a \in w2.auids : w2.infected[d][a]}
        due == {a \in zombies : Le(w2.ti_slow[d][a], w2.ti)}
    IN  [w2 EXCEPT !.fast[d] = SetAt(SetAt(@, due, FALSE), zombies \ due, TRUE)]

\* Zombie.step_state()
step_state(w, d) ==
    LET w1 == [w EXCEPT !.cum_deaths[d] = @ + DeathCount(w)]
        w2 == SIR_step_state(w1, d)
    IN  [w2 EXCEPT !.fast[d] = SetAt(@, FastToSlowUids(w2, d), FALSE)]

-----------------------------------------------------------------------------
(* class DeathZombies(ss.Deaths) *)

\* the alive agents infected by no disease whose name contains 'zombie'
NotEveryZombie(w, names) ==
    {a \in w.auids : w.alive[a] /\ \E d \in names : ContainsZombie(d) /\ ~w.infected[d][a]}

NotZombie(w, names) ==
    {a \in w.auids : w.alive[a] /\ \A d \in names : ContainsZombie(d) => ~w.infected[d][a]}

\* 'zombie' if 'zombie' in self.sim.diseases else 'slow_zombie'
SlowFirstZombieTarget(names) == IF "slow_zombie" \in names THEN "slow_zombie" ELSE "zombie"

ZombieTarget(names) == IF "zombie" \in names THEN "zombie" ELSE "slow_zombie"

UnguardedDeathZombies_step(w, names, zombie_uids, death_uids, draw) ==
    [w |-> set_prognoses(request_death(w, death_uids), ZombieTarget(names),
                         zombie_uids, draw),
     ret |-> Cardinality(death_uids),
     calls |-> {"filter", "request_death", "set_prognoses"}]

\* DeathZombies.step(), given the outcome of the two filters and of the
\* prognosis draws; [w: the state after the step, ret: the value returned]
DeathZombies_step(w, names, zombie_uids, death_uids, draw) ==
    LET w1 == IF death_uids # {} THEN request_death(w, death_uids) ELSE w
        w2 == IF Cardinality(zombie_uids) > 0
              THEN set_prognoses(w1, ZombieTarget(names), zombie_uids, draw)
              ELSE w1
    IN  [w |-> w2,
         ret |-> Cardinality(death_uids),
         calls |-> {"filter"}
                   \cup (IF death_uids # {} THEN {"request_death"} ELSE {})
                   \cup (IF Cardinality(zombie_uids) > 0 THEN {"set_prognoses"} ELSE {})]

-----------------------------------------------------------------------------
(* class KillZombies(ss.Intervention) *)

\* sim.t.now('year')
NowYear(w) == StartYear + w.ti

\* np.interp(x, xp, fp) for integer x, increasing integer xp and integer fp:
\* the end values outside the points, linear between two neighbours; the
\* result is a fraction
Interp(x, xp, fp) ==
    LET n == Len(xp)
    IN  IF x <= xp[1] THEN Frac(fp[1], 1)
        ELSE IF x >= xp[n] THEN Frac(fp[n], 1)
        ELSE LET i == CHOOSE j \in 1..(n - 1) : xp[j] <= x /\ x < xp[j + 1]
                 dx == xp[i + 1] - xp[i]
             IN  Frac(fp[i] * dx + (fp[i + 1] - fp[i]) * (x - xp[i]), dx)

\* the probability function installed by init_pre (dt_year = 1), as a
\* fraction; kill.rate is in percent
KillProbability(w, kill) ==
    LET r == Interp(NowYear(w), kill.year, kill.rate) IN Frac(r[1], 100 * r[2])

\* self.sim.t.now('year') < self.pars.year[0]
ReversedBeforeCurve(w, kill) == NowYear(w) > kill.year[1]

BeforeCurve(w, kill) == NowYear(w) < kill.year[1]

\* the UIDs of eligible after the loop over the diseases
EveryDiseaseKillEligible(w, names) ==
    {a \in w.auids :
        \/ ~w.alive[a]
        \/ \A d \in names : ContainsZombie(d) /\ w.infected[d][a] /\ w.symptomatic[d][a]}

KillEligible(w, names) ==
    {a \in w.auids :
        \/ ~w.alive[a]
        \/ \E d \in names : ContainsZombie(d) /\ w.infected[d][a] /\ w.symptomatic[d][a]}

\* the outcomes of self.pars.p.filter(eligible.uids); nothing is drawn
\* before the first year of the curve
KillDraws(w, names, kill) ==
    IF BeforeCurve(w, kill) THEN {{}}
    ELSE BernoulliDraw(KillProbability(w, kill), KillEligible(w, names))

\* KillZombies.step(), given the UIDs the filter selected
KillZombies_step(w, names, kill, death_uids) ==
    IF BeforeCurve(w, kill)
    THEN [w |-> w, ret |-> None, calls |-> {}, eligible |-> {}]
    ELSE [w |-> request_death(w, death_uids),
          ret |-> Cardinality(death_uids),
          calls |-> {"filter", "request_death"},
          eligible |-> KillEligible(w, names)]

-----------------------------------------------------------------------------
(* class zombie_vaccine(ss.Intervention) *)

\* check_eligibility(): all people
check_eligibility(w) == w.auids

\* rel_sus[uids] *= factor[uid]
ScaleRelSus(w, d, uids, factor) ==
    [w EXCEPT !.rel_sus[d] = [a \in DOMAIN @ |-> IF a \in uids THEN FMul(@[a], factor[a])
                                                             ELSE @[a]]]

\* administer(uids) with leaky=True
AdditiveAdminister(w, uids, efficacy) ==
    ScaleRelSus(w, "zombie", uids, [a \in uids |-> efficacy])

LeakyAdminister(w, uids, efficacy) ==
    ScaleRelSus(w, "zombie", uids, [a \in uids |-> FCompl(efficacy)])

\* administer(uids) with leaky=False; takes: the UIDs whose binomial draw is 1
AllOrNothingAdminister(w, uids, takes) ==
    ScaleRelSus(w, "zombie", uids, [a \in uids |-> IF a \in takes THEN One ELSE Zero])

\* probability of a binomial(1, 1 - efficacy) draw being 1
TakeProbability(efficacy) == FCompl(efficacy)

-----------------------------------------------------------------------------
(* class ZombieConnector(ss.Connector) *)

\* rel_sus[ppl.alive] = 1; rel_sus[other.infected] = self.pars.rel_sus
ResetLastCrossProtect(w, d, other, factor) ==
    LET set == SetAt(w.rel_sus[d], Uids(w, w.infected[other]), factor)
    IN  [w EXCEPT !.rel_sus[d] = SetAt(set, Uids(w, w.alive), One)]

MisresetCrossProtect(w, d, other, factor) ==
    [w EXCEPT !.rel_sus[other] = SetAt(@, Uids(w, w.alive), One),
              !.rel_sus[d] = SetAt(@, Uids(w, w.infected[other]), factor)]

CrossProtect(w, d, other, factor) ==
    LET reset == SetAt(w.rel_sus[d], Uids(w, w.alive), One)
    IN  [w EXCEPT !.rel_sus[d] = SetAt(reset, Uids(w, w.infected[other]), factor)]

\* ZombieConnector.step()
ZombieConnector_step(w, factor) ==
    CrossProtect(CrossProtect(w, "fast_zombie", "slow_zombie", factor),
                 "slow_zombie", "fast_zombie", factor)

\* the two updates of ZombieConnector.step() in the other order: the
\* slow_zombie update (lines 229-230) before the fast_zombie update (226-227)
SlowFirstConnector_step(w, factor) ==
    CrossProtect(CrossProtect(w, "slow_zombie", "fast_zombie", factor),
                 "fast_zombie", "slow_zombie", factor)

-----------------------------------------------------------------------------
(* The simulation loop around the handlers *)

\* people.step_die(): the agents whose death is due stop being alive and
\* leave every disease state
step_die(w, names) ==
    LET death_uids == {a \in w.auids : Le(w.ti_dead[a], w.ti)}
    IN  [w EXCEPT
           !.alive = SetAt(@, death_uids, FALSE),
           !.susceptible = [d \in names |-> SetAt(@[d], death_uids, FALSE)],
           !.infected = [d \in names |-> SetAt(@[d], death_uids, FALSE)],
           !.recovered = [d \in names |-> SetAt(@[d], death_uids, FALSE)]]

\* people.finish_step(): dead agents are removed from the active UIDs
remove_dead(w) == [w EXCEPT !.auids = {a \in @ : w.alive[a]}]

\* the agents one transmission step of disease d can infect: susceptible,
\* with a positive relative susceptibility, and someone else is infectious
InfectTargets(w, d) ==
    {a \in w.auids : /\ w.susceptible[d][a]
                     /\ w.rel_sus[d][a][1] > 0
                     /\ \E b \in w.auids \ {a} : w.infected[d][b]}

\* the calls of one simulation: initialisation of each disease, then the loop
\* of one timestep
InitPlan(c) ==
    [i \in 1..Len(c.diseases) |-> [f |-> "init_post", d |-> c.diseases[i]]]

LoopPlan(c) ==
    <<[f |-> "demographics", d |-> "-"]>>
    \o [i \in 1..Len(c.diseases) |-> [f |-> "step_state", d |-> c.diseases[i]]]
    \o (IF c.connector THEN <<[f |-> "connector", d |-> "-"]>> ELSE <<>>)
    \o (IF c.killer THEN <<[f |-> "kill", d |-> "-"]>> ELSE <<>>)
    \o (IF c.vaccine THEN <<[f |-> "vaccine", d |-> "-"]>> ELSE <<>>)
    \o (IF c.prenatal
        THEN [i \in 1..Len(c.diseases) |-> [f |-> "congenital", d |-> c.diseases[i]]]
        ELSE <<>>)
    \o [i \in 1..Len(c.diseases) |-> [f |-> "transmission", d |-> c.diseases[i]]]
    \o <<[f |-> "step_die", d |-> "-"], [f |-> "finish_step", d |-> "-"]>>

Plan(c) == InitPlan(c) \o LoopPlan(c)

Cur == IF pc = 0 THEN [f |-> "done", d |-> "-"] ELSE Plan(cfg)[pc]

Names == {cfg.diseases[i] : i \in 1..Len(cfg.diseases)}

Agents == 1..cfg.n_agents

Commit(w) ==
    /\ ti' = w.ti
    /\ auids' = w.auids
    /\ alive' = w.alive
    /\ ti_dead' = w.ti_dead
    /\ susceptible' = w.susceptible
    /\ infected' = w.infected
    /\ recovered' = w.recovered
    /\ dis_ti_dead' = w.dis_ti_dead
    /\ ti_recovered' = w.ti_recovered
    /\ fast' = w.fast
    /\ symptomatic' = w.symptomatic
    /\ ti_slow' = w.ti_slow
    /\ rel_sus' = w.rel_sus
    /\ cum_congenital' = w.cum_congenital
    /\ cum_deaths' = w.cum_deaths

Advance ==
    /\ pc' = pc + 1
    /\ cfg' = cfg

Called(op, d, uids, sel, rest, ret, calls, draw) ==
    [op |-> op, d |-> d, uids |-> uids, sel |-> sel, rest |-> rest, ret |-> ret,
     calls |-> calls, draw |-> draw]

-----------------------------------------------------------------------------
(* Configurations *)

\* ZombieConnector(pars): rel_sus, 0 unless given
ConnectorFactors == {Zero, <<1, 2>>}

\* zombie_vaccine(efficacy, leaky)
Efficacies == {<<1, 4>>, <<1, 1>>}

\* KillZombies(year, rate), rate in percent per year
RisingCurve == [year |-> <<2001, 2003>>, rate |-> <<50, 100>>]
\* three points; between the last two the rate is a fraction of a percent
ThreePointCurve == [year |-> <<1999, 2000, 2003>>, rate |-> <<100, 0, 2>>]
KillCurves == {RisingCurve, ThreePointCurve}

\* Zombie(pars): dur_inf and dur_fast, the defaults unless given
DefaultDur == [dur_inf |-> DurInf, dur_fast |-> DurFast]
Durations == {DefaultDur, [dur_inf |-> ShortDur, dur_fast |-> ShortDur]}

\* a simulation of the one disease 'zombie' with DeathZombies, KillZombies,
\* zombie_vaccine and transmission before birth. The all-or-nothing vaccine
\* is run with efficacy 1, where every binomial(1, 1 - efficacy) draw is 0;
\* the default durations are run with the three-point curve, the short ones
\* with the rising curve
ZombieConfigs ==
    [diseases : {<<"zombie">>}, connector : {FALSE}, conn_rel_sus : {Zero},
     killer : {TRUE}, kill : {RisingCurve}, vaccine : {TRUE}, efficacy : Efficacies,
     leaky : {TRUE}, prenatal : {TRUE}, n_agents : {NAgents}, n_steps : {MaxTi},
     dur : Durations \ {DefaultDur}]
    \cup
    [diseases : {<<"zombie">>}, connector : {FALSE}, conn_rel_sus : {Zero},
     killer : {TRUE}, kill : {RisingCurve}, vaccine : {TRUE}, efficacy : {One},
     leaky : {FALSE}, prenatal : {TRUE}, n_agents : {NAgents}, n_steps : {MaxTi},
     dur : Durations \ {DefaultDur}]
    \cup
    [diseases : {<<"zombie">>}, connector : {FALSE}, conn_rel_sus : {Zero},
     killer : {TRUE}, kill : KillCurves \ {RisingCurve}, vaccine : {TRUE},
     efficacy : {One}, leaky : {TRUE}, prenatal : {TRUE}, n_agents : {NAgents},
     n_steps : {MaxTi}, dur : {DefaultDur}]

\* a simulation of 'fast_zombie' and 'slow_zombie' with DeathZombies and
\* ZombieConnector
ConnectorConfigs ==
    [diseases : {<<"fast_zombie", "slow_zombie">>}, connector : {TRUE},
     conn_rel_sus : ConnectorFactors, killer : {FALSE}, kill : {RisingCurve},
     vaccine : {FALSE}, efficacy : {Zero}, leaky : {TRUE}, prenatal : {FALSE},
     n_agents : {NAgents}, n_steps : {MaxTi}, dur : Durations]

\* the same simulation with the connector's default rel_sus and one more agent
CrossConfigs ==
    [diseases : {<<"fast_zombie", "slow_zombie">>}, connector : {TRUE},
     conn_rel_sus : {Zero}, killer : {FALSE}, kill : {RisingCurve},
     vaccine : {FALSE}, efficacy : {Zero}, leaky : {TRUE}, prenatal : {FALSE},
     n_agents : {CrossAgents}, n_steps : {CrossSteps}, dur : {DefaultDur}]

\* simulations of two Zombie diseases with DeathZombies and KillZombies and
\* no connector: with and without a disease named 'zombie', and with one
\* whose name (given as Zombie(name='undead')) does not contain 'zombie'
TwoDiseaseConfigs ==
    [diseases : {<<"fast_zombie", "slow_zombie">>, <<"zombie", "slow_zombie">>,
                 <<"zombie", "undead">>},
     connector : {FALSE}, conn_rel_sus : {Zero}, killer : {TRUE}, kill : {RisingCurve},
     vaccine : {FALSE}, efficacy : {Zero}, leaky : {TRUE}, prenatal : {FALSE},
     n_agents : {NAgents}, n_steps : {MaxTi}, dur : Durations]

-----------------------------------------------------------------------------
(* State after construction: nobody infected, every agent's fast flag drawn *)

Constructed(configs) ==
    /\ ti = 0
    /\ pc = 1
    /\ cfg \in configs
    /\ auids = Agents
    /\ alive = [a \in Agents |-> TRUE]
    /\ ti_dead = [a \in Agents |-> NaN]
    /\ susceptible = [d \in Names |-> [a \in Agents |-> TRUE]]
    /\ infected = [d \in Names |-> [a \in Agents |-> FALSE]]
    /\ recovered = [d \in Names |-> [a \in Agents |-> FALSE]]
    /\ dis_ti_dead = [d \in Names |-> [a \in Agents |-> NaN]]
    /\ ti_recovered = [d \in Names |-> [a \in Agents |-> NaN]]
    /\ \E draws \in [Names -> BernoulliFilter(P_fast, Agents)] :
           fast = [d \in Names |-> [a \in Agents |-> a \in draws[d]]]
    /\ symptomatic = [d \in Names |-> [a \in Agents |-> FALSE]]
    /\ ti_slow = [d \in Names |-> [a \in Agents |-> NaN]]
    /\ rel_sus = [d \in Names |-> [a \in Agents |-> One]]
    /\ cum_congenital = [d \in Names |-> 0]
    /\ cum_deaths = [d \in Names |-> 0]
    /\ n_administered = [a \in Agents |-> 0]
    /\ last = Called("init", "-", {}, {}, {}, None, {}, NoDraw)

-----------------------------------------------------------------------------
(* Actions: one per call of the plan *)

\* Infection.init_post: the initial cases get their prognoses
InitPost ==
    /\ Cur.f = "init_post"
    /\ \E cases \in SUBSET auids : \E draw \in PrognosisDraws(cases) :
          /\ Commit(IF cases # {} THEN set_prognoses(World, Cur.d, cases, draw) ELSE World)
          /\ last' = Called("init_post", Cur.d, cases, {}, {}, None,
                            IF cases # {} THEN {"set_prognoses"} ELSE {}, draw)
    /\ Advance
    /\ UNCHANGED n_administered

\* DeathZombies.step
DeathZombiesStep ==
    /\ Cur.f = "demographics"
    /\ \E candidates \in SUBSET NotZombie(World, Names) :
       \E both \in BernoulliFilterBoth(P_zombie_on_natural_death, candidates) :
       \E draw \in PrognosisDraws(both[1]) :
          LET r == DeathZombies_step(World, Names, both[1], both[2], draw)
          IN  /\ Commit(r.w)
              /\ last' = Called("DeathZombies.step", ZombieTarget(Names), candidates,
                                both[1], both[2], r.ret, r.calls, draw)
    /\ Advance
    /\ UNCHANGED n_administered

\* Zombie.step_state
ZombieStepState ==
    /\ Cur.f = "step_state"
    /\ Commit(step_state(World, Cur.d))
    /\ last' = Called("step_state", Cur.d,
                      {a \in auids : Le(ti_dead[a], ti)},
                      {a \in auids : fast[Cur.d][a] /\ ~fast'[Cur.d][a]},
                      {}, None, {}, NoDraw)
    /\ Advance
    /\ UNCHANGED n_administered

\* ZombieConnector.step
ZombieConnectorStep ==
    /\ Cur.f = "connector"
    /\ Commit(ZombieConnector_step(World, cfg.conn_rel_sus))
    /\ last' = Called("ZombieConnector.step", "-", {}, {}, {}, None, {}, NoDraw)
    /\ Advance
    /\ UNCHANGED n_administered

\* KillZombies.step
KillZombiesStep ==
    /\ Cur.f = "kill"
    /\ \E death_uids \in KillDraws(World, Names, cfg.kill) :
          LET r == KillZombies_step(World, Names, cfg.kill, death_uids)
          IN  /\ Commit(r.w)
              /\ last' = Called("KillZombies.step", "-", r.eligible,
                                death_uids, {}, r.ret, r.calls, NoDraw)
    /\ Advance
    /\ UNCHANGED n_administered

\* zombie_vaccine.step
VaccineStep ==
    /\ Cur.f = "vaccine"
    /\ LET eligible_uids == check_eligibility(World)
       IN  \E takes \in IF cfg.leaky THEN {{}}
                        ELSE BernoulliDraw(TakeProbability(cfg.efficacy), eligible_uids) :
              /\ Commit(IF eligible_uids = {} THEN World
                        ELSE IF cfg.leaky
                             THEN LeakyAdminister(World, eligible_uids, cfg.efficacy)
                             ELSE AllOrNothingAdminister(World, eligible_uids, takes))
              /\ n_administered' = [a \in Agents |-> IF a \in eligible_uids
                                                      THEN n_administered[a] + 1
                                                      ELSE n_administered[a]]
              /\ last' = Called("zombie_vaccine.step", "zombie", eligible_uids, takes, {},
                                None, IF eligible_uids # {} THEN {"administer"} ELSE {},
                                NoDraw)
    /\ Advance

\* Zombie.set_congenital, called for the agents infected before birth
SetCongenital ==
    /\ Cur.f = "congenital"
    /\ \E target_uids \in SUBSET InfectTargets(World, Cur.d) :
       \E draw \in PrognosisDraws(target_uids) :
          /\ Commit(set_congenital(World, Cur.d, target_uids, draw))
          /\ last' = Called("set_congenital", Cur.d, target_uids, {}, {}, None,
                            {"set_prognoses"}, draw)
    /\ Advance
    /\ UNCHANGED n_administered

\* Infection.step: transmission; the new cases get their prognoses
Transmission ==
    /\ Cur.f = "transmission"
    /\ \E new_cases \in SUBSET InfectTargets(World, Cur.d) :
       \E draw \in PrognosisDraws(new_cases) :
          /\ Commit(IF new_cases # {} THEN set_prognoses(World, Cur.d, new_cases, draw)
                    ELSE World)
          /\ last' = Called("set_prognoses", Cur.d, new_cases, {}, {}, None,
                            IF new_cases # {} THEN {"set_prognoses"} ELSE {}, draw)
    /\ Advance
    /\ UNCHANGED n_administered

\* people.step_die
StepDie ==
    /\ Cur.f = "step_die"
    /\ Commit(step_die(World, Names))
    /\ last' = Called("step_die", "-", {}, {}, {}, None, {}, NoDraw)
    /\ Advance
    /\ UNCHANGED n_administered

\* people.finish_step and sim.finish_step: the dead are removed, time advances;
\* the run ends after n_steps timesteps
FinishStep ==
    /\ Cur.f = "finish_step"
    /\ Commit([remove_dead(World) EXCEPT !.ti = @ + 1])
    /\ last' = Called("finish_step", "-", {}, {}, {}, None, {}, NoDraw)
    /\ pc' = IF ti + 1 >= cfg.n_steps THEN 0 ELSE Len(InitPlan(cfg)) + 1
    /\ UNCHANGED <<cfg, n_administered>>

Init == Constructed(ZombieConfigs)

Next ==
    \/ InitPost
    \/ DeathZombiesStep
    \/ ZombieStepState
    \/ KillZombiesStep
    \/ VaccineStep
    \/ SetCongenital
    \/ Transmission
    \/ StepDie
    \/ FinishStep

Spec == Init /\ [][Next]_vars

InitConnector == Constructed(ConnectorConfigs)

NextConnector ==
    \/ InitPost
    \/ DeathZombiesStep
    \/ ZombieStepState
    \/ ZombieConnectorStep
    \/ Transmission
    \/ StepDie
    \/ FinishStep

SpecConnector == InitConnector /\ [][NextConnector]_vars

InitCross == Constructed(CrossConfigs)

SpecCross == InitCross /\ [][NextConnector]_vars

InitTwoDiseases == Constructed(TwoDiseaseConfigs)

NextTwoDiseases ==
    \/ InitPost
    \/ DeathZombiesStep
    \/ ZombieStepState
    \/ KillZombiesStep
    \/ Transmission
    \/ StepDie
    \/ FinishStep

SpecTwoDiseases == InitTwoDiseases /\ [][NextTwoDiseases]_vars

-----------------------------------------------------------------------------
(* Properties *)

\* C1: after DeathZombies.step, the agents converted to zombies and the agents
\* whose natural death was requested are disjoint and together are exactly the
\* death candidates returned by the death-rate filter
C1_Partition ==
    last.op = "DeathZombies.step" =>
        /\ last.sel \cap last.rest = {}
        /\ last.sel \cup last.rest = last.uids
        /\ \A a \in last.uids : ti_dead[a] = ti <=> (a \in last.rest \/ a \in last.draw.dead)
        /\ \A a \in last.uids : infected[last.d][a] <=> a \in last.sel

C1_Witness ==
    /\ last.op = "DeathZombies.step"
    /\ last.sel # {}
    /\ last.rest # {}

\* C2: no call ever decreases the congenital counter or the death counter of a
\* disease
C2_CountersMonotone ==
    [][\A d \in Names : /\ cum_congenital'[d] >= cum_congenital[d]
                        /\ cum_deaths'[d] >= cum_deaths[d]]_vars

C2_Witness ==
    /\ last.op = "set_congenital"
    /\ ti > 0
    /\ \E d \in Names : cum_congenital[d] > 0 /\ cum_deaths[d] > 0

NoDoubleZombie ==
    \A a \in Agents : ~(infected["fast_zombie"][a] /\ infected["slow_zombie"][a])

\* C3: with the connector in place, no agent is infected by fast_zombie and
\* slow_zombie at once; in particular a transmission step of either disease
\* that starts with no such agent ends with none
C3_TransmissionKeepsOneKind ==
    [][(Cur.f = "transmission" /\ NoDoubleZombie) => NoDoubleZombie']_vars

\* C4: right after ZombieConnector.step, fast_zombie's relative susceptibility
\* is the configured factor for every agent infected by slow_zombie and 1 for
\* every other living agent, and the same with the two diseases exchanged
C4_CrossImmunity ==
    last.op = "ZombieConnector.step" =>
        \A a \in Agents :
            /\ infected["slow_zombie"][a] => rel_sus["fast_zombie"][a] = cfg.conn_rel_sus
            /\ (alive[a] /\ ~infected["slow_zombie"][a]) => rel_sus["fast_zombie"][a] = One
            /\ infected["fast_zombie"][a] => rel_sus["slow_zombie"][a] = cfg.conn_rel_sus
            /\ (alive[a] /\ ~infected["fast_zombie"][a]) => rel_sus["slow_zombie"][a] = One

C4_Witness ==
    /\ last.op = "ZombieConnector.step"
    /\ cfg.conn_rel_sus # Zero
    /\ \E a, b \in auids : /\ infected["slow_zombie"][a]
                           /\ ~infected["slow_zombie"][b]
                           /\ infected["fast_zombie"][b]

\* C5: Zombie.step_state at time t makes every fast agent whose ti_slow is at
\* most t slow, and leaves the fast flag of every agent whose ti_slow is
\* later than t as it was
C5_FastToSlow ==
    [][Cur.f = "step_state" =>
        \A a \in auids :
            /\ (fast[Cur.d][a] /\ ti_slow[Cur.d][a] # NaN /\ ti_slow[Cur.d][a] <= ti)
                   => ~fast'[Cur.d][a]
            /\ ti_slow[Cur.d][a] > ti => fast'[Cur.d][a] = fast[Cur.d][a]]_vars

C5_Witness ==
    /\ last.op = "step_state"
    /\ last.sel # {}
    /\ \E a \in auids : fast[last.d][a] /\ ti_slow[last.d][a] > ti

\* C6: Zombie.step_state adds to the death counter the number of agents whose
\* death time is the current timestep
C6_DeathCounter ==
    [][Cur.f = "step_state" =>
        cum_deaths'[Cur.d] =
            cum_deaths[Cur.d] + Cardinality({a \in auids : ti_dead[a] = ti})]_vars

C6_Witness ==
    /\ last.op = "step_state"
    /\ last.uids # {}
    /\ ti > 0
    /\ auids # Agents

\* C7: Zombie.set_congenital adds the number of targets to the congenital
\* counter and otherwise leaves the state that Zombie.set_prognoses leaves
\* for the same targets and the same draws
C7_CongenitalDelegates ==
    [][Cur.f = "congenital" =>
        /\ cum_congenital'[Cur.d] = cum_congenital[Cur.d] + Cardinality(last'.uids)
        /\ World' = [set_prognoses(World, Cur.d, last'.uids, last'.draw)
                        EXCEPT !.cum_congenital = cum_congenital']]_vars

C7_Witness ==
    /\ last.op = "set_congenital"
    /\ last.uids # {}
    /\ last.draw.dead # {}
    /\ \E a \in last.uids : fast[last.d][a]

\* C8 as stated: before the first year of the curve KillZombies.step returns 0
C8_ReturnsZero ==
    (last.op = "KillZombies.step" /\ StartYear + ti < cfg.kill.year[1]) => last.ret = 0

\* C8: before the first year of the curve KillZombies.step returns without a
\* value, draws nothing, requests no death and changes nothing
C8_NoOpBeforeCurve ==
    [][(Cur.f = "kill" /\ StartYear + ti < cfg.kill.year[1]) =>
        /\ last'.ret = None
        /\ last'.calls = {}
        /\ last'.sel = {}
        /\ World' = World]_vars

C8_Witness ==
    /\ last.op = "KillZombies.step"
    /\ StartYear + ti < cfg.kill.year[1]
    /\ \E a \in auids : infected["zombie"][a] /\ symptomatic["zombie"][a]

\* C9: with leaky = True the relative susceptibility of every agent is
\* (1 - efficacy) to the power of the number of administer calls that
\* included the agent
C9_LeakyCompounds ==
    cfg.leaky =>
        \A a \in Agents :
            rel_sus["zombie"][a] = FPow(Frac(cfg.efficacy[2] - cfg.efficacy[1],
                                             cfg.efficacy[2]),
                                        n_administered[a])

C9_Witness ==
    /\ cfg.leaky
    /\ cfg.efficacy = <<1, 4>>
    /\ \E a, b \in Agents : /\ n_administered[a] = 2
                            /\ rel_sus["zombie"][a] = <<9, 16>>
                            /\ n_administered[b] = 1

\* C10: an agent infected by a disease whose name contains 'zombie' when
\* DeathZombies.step runs is not a death candidate of that step: its death is
\* not requested and it gets no new prognosis
C10_ZombiesSpared ==
    [][Cur.f = "demographics" =>
        \A a \in Agents :
            (\E d \in Names : ContainsZombie(d) /\ infected[d][a]) =>
                /\ a \notin last'.uids \cup last'.sel \cup last'.rest
                /\ ti_dead'[a] = ti_dead[a]
                /\ \A d \in Names : /\ infected'[d][a] = infected[d][a]
                                    /\ symptomatic'[d][a] = symptomatic[d][a]
                                    /\ ti_slow'[d][a] = ti_slow[d][a]
                                    /\ dis_ti_dead'[d][a] = dis_ti_dead[d][a]]_vars

C10_Witness ==
    /\ last.op = "DeathZombies.step"
    /\ last.sel # {}
    /\ \E a \in auids : infected["fast_zombie"][a] /\ ~infected["slow_zombie"][a]

\* C11: when KillZombies.step runs at or after the first year of the curve,
\* the agents offered to the filter are exactly the active agents infected
\* and symptomatic with at least one zombie-named disease (all of them alive),
\* death is requested for exactly the filtered subset, and the step returns
\* the size of that subset.
C11_KillTargetsZombies ==
    [][(Cur.f = "kill" /\ StartYear + ti >= cfg.kill.year[1]) =>
          /\ last'.uids = {a \in Agents : \E d \in Names :
                               /\ ContainsZombie(d)
                               /\ infected[d][a] /\ symptomatic[d][a]}
          /\ \A a \in last'.uids : a \in auids /\ alive[a]
          /\ last'.sel \subseteq last'.uids
          /\ \A a \in Agents :
                ti_dead'[a] = IF a \in last'.sel THEN ti ELSE ti_dead[a]
          /\ last'.ret = Cardinality(last'.sel)]_vars

\* a kill step that was offered a zombie of only one of two kinds, and not
\* an uninfected agent, and killed the zombie
C11_Witness ==
    /\ last.op = "KillZombies.step"
    /\ Cardinality(Names) = 2
    /\ last.ret = 1
    /\ \E a \in last.sel :
          /\ ti_dead[a] = ti
          /\ \E d \in Names : ~infected[d][a]
    /\ \E a \in auids : a \notin last.uids

\* C12: ti_slow is written only by set_prognoses, only for a newly infected
\* agent whose fast flag is true at that moment, and the value written is the
\* current time plus the drawn duration; every newly infected fast agent gets
\* it, and the ti_slow of non-fast candidates and of everybody else is left
\* unchanged. So in every state ti_slow is set only for agents that have been
\* infected.
C12_TiSlowOnlyForFast ==
    /\ [](\A d \in Names : \A a \in Agents :
             ti_slow[d][a] # NaN => ~susceptible[d][a])
    /\ [][\A d \in Names : \A a \in Agents :
             LET newly == ~infected[d][a] /\ infected'[d][a]
             IN  /\ ti_slow'[d][a] # ti_slow[d][a] => newly /\ fast[d][a]
                 /\ newly /\ fast[d][a] => ti_slow'[d][a] = ti + cfg.dur.dur_fast
                 /\ newly /\ ~fast[d][a] => ti_slow'[d][a] = NaN]_vars

\* one set_prognoses call that infected a fast and a non-fast agent: only the
\* fast one has its slowing time scheduled
C12_Witness ==
    /\ last.op \in {"set_prognoses", "DeathZombies.step"}
    /\ \E d \in Names : \E a, b \in auids :
          /\ infected[d][a] /\ infected[d][b]
          /\ fast[d][a] /\ ~fast[d][b]
          /\ {a, b} \subseteq (IF last.op = "set_prognoses" THEN last.uids ELSE last.sel)
          /\ ti_slow[d][a] = ti + cfg.dur.dur_fast
          /\ ti_slow[d][b] = NaN

\* C13: DeathZombies.step converts the selected agents by set_prognoses on
\* the disease named exactly 'zombie' when one is registered and on
\* 'slow_zombie' otherwise, touches no other disease, and returns the number
\* of natural deaths (the agents of the filter's second list), in which the
\* converted agents are not counted.
C13_ConversionTarget ==
    [][Cur.f = "demographics" =>
          LET target == IF "zombie" \in Names THEN "zombie" ELSE "slow_zombie"
          IN  /\ \A a \in last'.sel :
                    /\ ~infected[target][a]
                    /\ infected'[target][a] /\ ~susceptible'[target][a]
                    /\ dis_ti_dead'[target][a] = ti + cfg.dur.dur_inf
              /\ \A d \in Names \ {target} :
                    /\ infected'[d] = infected[d]
                    /\ susceptible'[d] = susceptible[d]
                    /\ symptomatic'[d] = symptomatic[d]
                    /\ ti_slow'[d] = ti_slow[d]
                    /\ dis_ti_dead'[d] = dis_ti_dead[d]
                    /\ cum_deaths'[d] = cum_deaths[d]
              /\ last'.sel \cap last'.rest = {}
              /\ last'.ret = Cardinality(last'.rest)]_vars

\* with both 'zombie' and 'slow_zombie' registered, a step that converted one
\* agent to 'zombie' and let another die, and returned 1
C13_Witness ==
    /\ last.op = "DeathZombies.step"
    /\ {"zombie", "slow_zombie"} \subseteq Names
    /\ Cardinality(last.sel) = 1 /\ Cardinality(last.rest) = 1
    /\ last.ret = 1
    /\ \A a \in last.sel : infected["zombie"][a] /\ ~infected["slow_zombie"][a]

\* C14: DeathZombies.step calls request_death exactly when the list of
\* natural deaths is non-empty and set_prognoses exactly when the list of
\* conversions is non-empty; when both are empty it requests no death, calls
\* no set_prognoses, changes nothing in the population and returns 0.
C14_NoQualifyingAgents ==
    [][Cur.f = "demographics" =>
          /\ "request_death" \in last'.calls <=> last'.rest # {}
          /\ "set_prognoses" \in last'.calls <=> last'.sel # {}
          /\ (last'.sel = {} /\ last'.rest = {}) =>
                /\ last'.ret = 0
                /\ last'.calls \cap {"request_death", "set_prognoses"} = {}
                /\ ti_dead' = ti_dead
                /\ infected' = infected /\ susceptible' = susceptible
                /\ symptomatic' = symptomatic /\ ti_slow' = ti_slow
                /\ dis_ti_dead' = dis_ti_dead /\ cum_deaths' = cum_deaths]_vars

\* a step after the first one, with agents present, in which the death rate
\* selected nobody, so that both filter lists are empty
C14_Witness ==
    /\ last.op = "DeathZombies.step"
    /\ auids # {} /\ last.uids = {}
    /\ last.sel = {} /\ last.rest = {}
    /\ last.ret = 0
    /\ last.calls = {"filter"}
    /\ ti > 0

\* C15: the order of the two updates of ZombieConnector.step does not
\* matter: in every population state the step reaches, doing the slow_zombie
\* update before the fast_zombie update gives the state the step produces.
C15_UpdateOrderImmaterial ==
    [][Cur.f = "connector" =>
          LET swapped == SlowFirstConnector_step(World, cfg.conn_rel_sus)
          IN  /\ rel_sus' = swapped.rel_sus
              /\ infected' = swapped.infected
              /\ susceptible' = swapped.susceptible
              /\ alive' = swapped.alive
              /\ ti_dead' = swapped.ti_dead]_vars

\* a connector step after the first timestep on a population holding a zombie
\* of each kind, each with its susceptibility to the other kind modified
C15_Witness ==
    /\ last.op = "ZombieConnector.step"
    /\ ti > 0
    /\ \E a, b \in auids :
          /\ infected["fast_zombie"][a] /\ rel_sus["slow_zombie"][a] = cfg.conn_rel_sus
          /\ infected["slow_zombie"][b] /\ rel_sus["fast_zombie"][b] = cfg.conn_rel_sus
          /\ rel_sus["slow_zombie"][b] = One \/ rel_sus["fast_zombie"][a] = One

\* C16: each agent's death is counted at most once: the cum_deaths of a
\* disease never exceeds the number of distinct agents that have died or
\* have a death requested.
C16_DeathsCountedOnce ==
    \A d \in Names :
        cum_deaths[d] <= Cardinality({a \in Agents : ti_dead[a] # NaN})

\* C17: the fast-to-slow transition is one-way: no step of the simulation
\* (step_state, set_prognoses, set_congenital or any other handler) changes
\* the fast flag of an agent from false to true.
C17_FastOneWay ==
    [][\A d \in Names : \A a \in Agents : ~fast[d][a] => ~fast'[d][a]]_vars

\* after the first timestep, in a state reached by a set_prognoses call, an
\* agent that was fast when infected and has since become slow stands next
\* to an infected agent that was never fast
C17_Witness ==
    /\ last.op = "set_prognoses"
    /\ ti > 0
    /\ \E d \in Names : \E a, b \in auids :
          /\ infected[d][a] /\ ~fast[d][a] /\ ti_slow[d][a] # NaN
          /\ infected[d][b] /\ ~fast[d][b] /\ ti_slow[d][b] = NaN

====
